---- MODULE Spec2Model ----
(***************************************************************************)
(* Client-side synchronization engine of the GCP Guardian dashboard        *)
(* (src/static/js/app.js, first DOMContentLoaded handler, lines 1-294;     *)
(* login from src/static/script.js).                                       *)
(*                                                                         *)
(* The browser is single-threaded: every handler below runs from its entry *)
(* to its first pending network response as one atomic step; a response    *)
(* arriving later runs the continuation of the async function as another   *)
(* atomic step.  `await response.json()` follows the arrival of a response *)
(* without any state change in between, so arrival and body are one step.  *)
(*                                                                         *)
(* The second DOMContentLoaded handler of app.js (lines 296-414) serves    *)
(* the older single-server page, whose elements the multi-server page does *)
(* not have; it is not part of this model.                                 *)
(*                                                                         *)
(* localStorage outlives the document: token and cache persist over        *)
(* Unload, Login and LoadDashboard, so a reload finds the entries the      *)
(* previous document stored.                                               *)
(***************************************************************************)
EXTENDS Integers, Sequences, FiniteSets, Bags, TLC

VARIABLES
    page,       \* document shown in the tab: "login" or "dashboard"
    redirect,   \* window.location.href was set to the login page, navigation pending
    token,      \* localStorage 'accessToken'
    cache,      \* localStorage 'dashboardData-<id>', the stored JSON text per key
    now,        \* wall clock, ms (new Date().getTime())
    servers,    \* the global `servers` list of the dashboard page
    display,    \* DOM of each server card
    inflight,   \* fetch() calls issued and not yet answered (a bag)
    hourlyDue,  \* next expiry of the hourly setInterval (Off when not armed)
    logsDue,    \* next expiry of the 5-minute setInterval (Off when not armed)
    timeouts,   \* pending setTimeout callbacks of handleVmAction
    denied,     \* history: fetchWithAuth got a 401 since the last login
    clicks,     \* history: how many buttons the user has clicked
    invs,       \* history: one record per handleVmAction invocation
    fetched,    \* history: body of the last successful status fetch per server
    logged,     \* history: body of the last logs response rendered in each card
    last        \* history: what the last step did

vars == <<page, redirect, token, cache, now, servers, display, inflight,
          hourlyDue, logsDue, timeouts, denied, clicks, invs, fetched, logged,
          last>>

-----------------------------------------------------------------------------
(* Program constants *)

TTL == 3600000
StatusInterval == 3600000
LogInterval == 300000
RefreshDelay == 3000
Unauthorized == 401

(* Bounds of the model *)

MaxClicks == 1
MaxSlow == 1

ServerIds == {"a", "b"}
ServerLists == {{}, {"a"}}
VmActions == {"start", "shutdown"}
NoToken == "null"
Tokens == {"jwt"}
Off == -1
None == "-"

\* Instants the clock shows: the first load, the expiry of a deferred refresh armed
\* then and the first hourly tick.  A timer fires at the first instant shown at or
\* after its expiry.
Instants == {0, RefreshDelay, StatusInterval}

\* Response statuses: 0 stands for a rejected fetch (network error).
NetworkError == 0
Statuses == {200, Unauthorized, 500, NetworkError}

\* Status bodies the backend can send for a server; current_traffic_gb is the
\* number in thousandths of a GB.
StatusData(s) ==
    {[instance_name |-> s, status |-> "RUNNING", current_traffic_gb |-> 1500,
      traffic_threshold_gb |-> 100, traffic_usage_percent |-> 2],
     [instance_name |-> s, status |-> "TERMINATED", current_traffic_gb |-> 80006,
      traffic_threshold_gb |-> 100, traffic_usage_percent |-> 80]}

\* Log bodies the backend can send: no entry, or two entries, the second one
\* without a reason.
LogLists ==
    {<<>>,
     <<[timestamp |-> 2, action_type |-> "start", reason |-> "manual"],
       [timestamp |-> 1, action_type |-> "shutdown", reason |-> None]>>}

-----------------------------------------------------------------------------
(* Pure helpers *)

\* Faulty variant: the key leaves the server's id out.
cacheKeyShared(id) == <<"dashboardData-">>

\* `dashboardData-${server.id}`, the key of a server's entry in localStorage.
cacheKey(id) == <<"dashboardData-", id>>

CacheKeys == {cacheKey(s) : s \in ServerIds}

\* JSON.stringify({data, timestamp}) / JSON.parse; a missing key reads as <<>>.
JSONStringify(data, timestamp) == <<"data", data, "timestamp", timestamp>>
JSONParse(text) == [data |-> text[2], timestamp |-> text[4]]
NoEntry == <<>>

\* Faulty variant: logout leaves the cached entries in place.
KeptEntries(entries) == entries

\* localStorage.clear(), for the cached entries: none is left.
ClearedEntries(entries) == [k \in DOMAIN entries |-> NoEntry]

\* Faulty variant: the token check is skipped.
HasTokenAlways(currentToken) == TRUE

HasToken(currentToken) == currentToken # NoToken

\* Faulty variant: an entry whose age equals the TTL still counts as fresh.
IsFreshInclusive(text, force, t) ==
    /\ ~force
    /\ text # NoEntry
    /\ t - JSONParse(text).timestamp <= TTL

\* Faulty variant: the TTL is compared in seconds.
IsFreshSeconds(text, force, t) ==
    /\ ~force
    /\ text # NoEntry
    /\ t - JSONParse(text).timestamp < TTL \div 1000

\* Faulty variant: the force flag is ignored.
IsFreshUnforced(text, force, t) ==
    /\ text # NoEntry
    /\ t - JSONParse(text).timestamp < TTL

IsFresh(text, force, t) ==
    /\ ~force
    /\ text # NoEntry
    /\ t - JSONParse(text).timestamp < TTL

\* Faulty variant: the answer of confirm() is ignored.
ConfirmedAlways(answer) == TRUE

Confirmed(answer) == answer

\* Faulty variant: the timer is armed without its delay.
DueAtOnce(t, delay) == t

\* Expiry of a timer armed at t with the given delay (setTimeout, setInterval).
Due(t, delay) == t + delay

\* Faulty variant: every error status tears the session down.
IsUnauthorizedAnyError(status) == status >= 400

IsUnauthorized(status) == status = Unauthorized

\* Faulty variant: every answered call counts as a success.
ResponseOkAnyStatus(status) == status >= 200

ResponseOk(status) == status \in 200..299

\* Card as createServerCard builds it: name and status with the badge's extra
\* class, width of the progress bar, traffic line, log list.
NewCard ==
    [vm |-> <<"Loading...", "Loading...", None>>, bar |-> None,
     traffic |-> <<"Loading...">>, logs |-> <<"Loading logs...">>]
NoCard == [vm |-> <<>>, bar |-> None, traffic |-> <<>>, logs |-> <<>>]

\* Number.toFixed(2) of x thousandths: whole part and two decimals, rounded.
toFixed2(x) == <<((x + 5) \div 10) \div 100, ((x + 5) \div 10) % 100>>

\* Extra class of the status badge.
BadgeClass(status) ==
    CASE status = "RUNNING" -> "running"
      [] status = "TERMINATED" -> "terminated"
      [] OTHER -> "loading"

renderDashboardData(card, data) ==
    [card EXCEPT !.vm = <<data.instance_name, data.status, BadgeClass(data.status)>>,
                 !.bar = data.traffic_usage_percent,
                 !.traffic = <<toFixed2(data.current_traffic_gb), "GB /",
                               data.traffic_threshold_gb, "GB",
                               data.traffic_usage_percent, "%">>]

ErrorCard(card) == [card EXCEPT !.traffic = <<"Error loading data.">>]

\* Text of one <li>: `[${timestamp}] ${log.action_type}: ${log.reason || ''}`.
logItem(log) ==
    <<"[", <<"toLocaleString", log.timestamp>>, "] ", log.action_type, ": ",
      IF log.reason = None THEN "" ELSE log.reason>>

\* Faulty variant: an empty response leaves the list empty.
renderLogsNoPlaceholder(card, logs) ==
    [card EXCEPT !.logs = [i \in 1..Len(logs) |-> logItem(logs[i])]]

renderLogs(card, logs) ==
    [card EXCEPT !.logs = IF Len(logs) = 0
                          THEN <<"No actions logged for this server.">>
                          ELSE [i \in 1..Len(logs) |-> logItem(logs[i])]]

\* Which way updateDashboardForServer goes for one server.
StatusPath(text, force, t, currentToken) ==
    IF IsFresh(text, force, t) THEN "hit"
    ELSE IF HasToken(currentToken) THEN "fetch"
    ELSE "noToken"

\* Faulty variant: the log sync is skipped while any status entry is cached.
LogsPathCached(currentToken) ==
    IF \E k \in DOMAIN cache : cache[k] # NoEntry THEN "hit"
    ELSE IF HasToken(currentToken) THEN "fetch"
    ELSE "noToken"

\* Which way updateActionLogsForServer goes.
LogsPath(currentToken) == IF HasToken(currentToken) THEN "fetch" ELSE "noToken"

Request(kind, s, t, inv, bearer) ==
    [kind |-> kind, srv |-> s, at |-> t, inv |-> inv, bearer |-> bearer]

\* What a step did: the handler, its server, the status of the response that
\* arrived, what fetchWithAuth gave its caller for it (Off: it threw) and the
\* handleVmAction invocation the step belongs to.
Step(op, s, resp, ret, inv) ==
    [op |-> op, srv |-> s, resp |-> resp, ret |-> ret, inv |-> inv]

Idle == Step("Init", None, Off, Off, 0)

\* One handleVmAction invocation: its server, the user's answer to confirm(), how
\* far it got, the status of its response (Off: none yet) and how often its
\* deferred refresh has run.
NoInv == [srv |-> None, answer |-> FALSE, outcome |-> "unused", resp |-> Off, runs |-> 0]

-----------------------------------------------------------------------------
Init ==
    /\ page = "login"
    /\ redirect = FALSE
    /\ token = NoToken
    /\ cache = [k \in CacheKeys |-> NoEntry]
    /\ now = 0
    /\ servers = {}
    /\ display = [s \in ServerIds |-> NoCard]
    /\ inflight = EmptyBag
    /\ hourlyDue = Off
    /\ logsDue = Off
    /\ timeouts = {}
    /\ denied = FALSE
    /\ clicks = 0
    /\ invs = [i \in 1..MaxClicks |-> NoInv]
    /\ fetched = [s \in ServerIds |-> <<>>]
    /\ logged = [s \in ServerIds |-> <<>>]
    /\ last = Idle

-----------------------------------------------------------------------------
(* The two synchronizations, for a set of servers in one handler *)

StatusPaths(S, force) ==
    [s \in ServerIds |-> IF s \in S THEN StatusPath(cache[cacheKey(s)], force, now, token) ELSE None]

LogsPaths(L) ==
    [s \in ServerIds |-> IF s \in L THEN LogsPath(token) ELSE None]

\* updateDashboardForServer up to its first await, for each server of S.
DisplayAfterSync(cards, sp) ==
    [s \in ServerIds |->
        CASE sp[s] = "hit" -> renderDashboardData(cards[s], JSONParse(cache[cacheKey(s)]).data)
          [] sp[s] = "noToken" -> ErrorCard(cards[s])
          [] OTHER -> cards[s]]

\* Faulty variant: a sync waits for the calls in flight and is skipped meanwhile.
IssuedWhenIdle(sp, lp) ==
    IF inflight # EmptyBag THEN {}
    ELSE {Request("status", s, now, 0, token) : s \in {x \in ServerIds : sp[x] = "fetch"}}
             \cup {Request("logs", s, 0, 0, token) : s \in {x \in ServerIds : lp[x] = "fetch"}}

Issued(sp, lp) ==
    {Request("status", s, now, 0, token) : s \in {x \in ServerIds : sp[x] = "fetch"}}
        \cup {Request("logs", s, 0, 0, token) : s \in {x \in ServerIds : lp[x] = "fetch"}}

Redirected(sp, lp) == \E s \in ServerIds : sp[s] = "noToken" \/ lp[s] = "noToken"

\* updateDashboardForServer(server, force) for S and updateActionLogsForServer for L,
\* on the cards `cards`, with `pending` the calls still in flight.
Syncs(S, force, L, cards, pending) ==
    LET sp == StatusPaths(S, force)
        lp == LogsPaths(L)
    IN  /\ display' = DisplayAfterSync(cards, sp)
        /\ inflight' = pending (+) SetToBag(Issued(sp, lp))
        /\ redirect' = (redirect \/ Redirected(sp, lp))

\* What fetchWithAuth gives its caller for a response status: the status, or Off
\* when it throws.
FetchReturn(status) ==
    IF status = NetworkError \/ IsUnauthorized(status) THEN Off ELSE status

TokenAfter(currentToken, status) ==
    IF IsUnauthorized(status) THEN NoToken ELSE currentToken

-----------------------------------------------------------------------------
(* Actions *)

\* script.js: a successful login stores the token.
Login ==
    /\ page = "login"
    /\ token = NoToken
    /\ \E t \in Tokens : token' = t
    /\ denied' = FALSE
    /\ last' = Step("Login", None, Off, Off, 0)
    /\ UNCHANGED <<page, redirect, cache, now, servers, display, inflight,
                   hourlyDue, logsDue, timeouts, clicks, invs, fetched, logged>>

\* DOMContentLoaded of the dashboard page: token check, initialize(), setInterval x2.
LoadDashboard ==
    /\ page = "login"
    /\ HasToken(token)
    /\ page' = "dashboard"
    /\ servers' = {}
    /\ display' = [s \in ServerIds |-> NoCard]
    /\ inflight' = SetToBag({Request("servers", None, 0, 0, token)})
    /\ hourlyDue' = Due(now, StatusInterval)
    /\ logsDue' = Due(now, LogInterval)
    /\ last' = Step("LoadDashboard", None, Off, Off, 0)
    /\ logged' = [s \in ServerIds |-> <<>>]
    /\ UNCHANGED <<redirect, token, cache, now, timeouts, denied, clicks, invs, fetched>>

\* Answer to `await fetchWithAuth('/api/v1/servers')` in initialize(), the body
\* being one of the given lists.
RespServersFrom(lists) ==
    \E r \in BagToSet(inflight), st \in Statuses, list \in lists :
        /\ page = "dashboard"
        /\ r.kind = "servers"
        /\ token' = TokenAfter(token, st)
        /\ denied' = (denied \/ st = Unauthorized)
        /\ IF FetchReturn(st) # Off /\ ResponseOk(FetchReturn(st))
           THEN /\ servers' = list
                /\ Syncs(list, FALSE, list,
                         [s \in ServerIds |-> IF s \in list THEN NewCard ELSE NoCard],
                         inflight (-) SetToBag({r}))
                /\ last' = Step("RespServers", None, st, FetchReturn(st), 0)
           ELSE /\ inflight' = inflight (-) SetToBag({r})
                /\ redirect' = (redirect \/ IsUnauthorized(st))
                /\ last' = Step("RespServers", None, st, FetchReturn(st), 0)
                /\ UNCHANGED <<servers, display>>
        /\ UNCHANGED <<page, cache, now, hourlyDue, logsDue, timeouts, clicks, invs, fetched, logged>>

RespServers == RespServersFrom(ServerLists)

\* Answer to `await fetchWithAuth(.../status)` in updateDashboardForServer.
RespStatus ==
    \E r \in BagToSet(inflight), st \in Statuses :
        /\ page = "dashboard"
        /\ r.kind = "status"
        /\ inflight' = inflight (-) SetToBag({r})
        /\ token' = TokenAfter(token, st)
        /\ denied' = (denied \/ st = Unauthorized)
        /\ redirect' = (redirect \/ IsUnauthorized(st))
        /\ last' = Step("RespStatus", r.srv, st, FetchReturn(st), 0)
        /\ IF FetchReturn(st) # Off /\ ResponseOk(FetchReturn(st))
           THEN \E data \in StatusData(r.srv) :
                /\ display' = [display EXCEPT ![r.srv] = renderDashboardData(@, data)]
                /\ cache' = [cache EXCEPT ![cacheKey(r.srv)] = JSONStringify(data, r.at)]
                /\ fetched' = [fetched EXCEPT ![r.srv] = <<data>>]
           ELSE /\ display' = [display EXCEPT ![r.srv] = ErrorCard(@)]
                /\ UNCHANGED <<cache, fetched>>
        /\ UNCHANGED <<page, now, servers, hourlyDue, logsDue, timeouts, clicks, invs, logged>>

\* Answer to `await fetchWithAuth(.../logs/actions...)` in updateActionLogsForServer.
RespLogs ==
    \E r \in BagToSet(inflight), st \in Statuses :
        /\ page = "dashboard"
        /\ r.kind = "logs"
        /\ inflight' = inflight (-) SetToBag({r})
        /\ token' = TokenAfter(token, st)
        /\ denied' = (denied \/ st = Unauthorized)
        /\ redirect' = (redirect \/ IsUnauthorized(st))
        /\ last' = Step("RespLogs", r.srv, st, FetchReturn(st), 0)
        /\ IF FetchReturn(st) # Off /\ ResponseOk(FetchReturn(st))
           THEN \E logs \in LogLists :
                /\ display' = [display EXCEPT ![r.srv] = renderLogs(@, logs)]
                /\ logged' = [logged EXCEPT ![r.srv] = <<logs>>]
           ELSE UNCHANGED <<display, logged>>
        /\ UNCHANGED <<page, cache, now, servers, hourlyDue, logsDue, timeouts, clicks, invs, fetched>>

\* Answer to `await fetchWithAuth(.../{action}, POST)` in handleVmAction.
RespAction ==
    \E r \in BagToSet(inflight), st \in Statuses :
        /\ page = "dashboard"
        /\ r.kind \in VmActions
        /\ inflight' = inflight (-) SetToBag({r})
        /\ token' = TokenAfter(token, st)
        /\ denied' = (denied \/ st = Unauthorized)
        /\ redirect' = (redirect \/ IsUnauthorized(st))
        /\ last' = Step("RespAction", r.srv, st, FetchReturn(st), r.inv)
        /\ IF FetchReturn(st) # Off /\ ResponseOk(FetchReturn(st))
           THEN timeouts' = timeouts \cup
                    {[inv |-> r.inv, srv |-> r.srv, due |-> Due(now, RefreshDelay)]}
           ELSE UNCHANGED timeouts
        /\ invs' = [invs EXCEPT ![r.inv].outcome = "answered", ![r.inv].resp = st]
        /\ UNCHANGED <<page, cache, now, servers, display, hourlyDue, logsDue, clicks, fetched, logged>>

\* setInterval(..., 3600000): updateDashboardForServer(server) for every server.
HourlyTick ==
    /\ page = "dashboard"
    /\ hourlyDue # Off
    /\ hourlyDue <= now
    /\ hourlyDue' = Due(now, StatusInterval)
    /\ Syncs(servers, FALSE, {}, display, inflight)
    /\ last' = Step("HourlyTick", None, Off, Off, 0)
    /\ UNCHANGED <<page, token, cache, now, servers, logsDue, timeouts, clicks, denied, invs, fetched, logged>>

\* setInterval(..., 300000): updateActionLogsForServer(server) for every server.
LogTick ==
    /\ page = "dashboard"
    /\ logsDue # Off
    /\ logsDue <= now
    /\ logsDue' = Due(now, LogInterval)
    /\ Syncs({}, FALSE, servers, display, inflight)
    /\ last' = Step("LogTick", None, Off, Off, 0)
    /\ UNCHANGED <<page, token, cache, now, servers, hourlyDue, timeouts, clicks, denied, invs, fetched, logged>>

\* Click on "Refresh Data" of a card.
RefreshClick ==
    \E s \in servers :
        /\ page = "dashboard"
        /\ clicks < MaxClicks
        /\ clicks' = clicks + 1
        /\ Syncs({s}, TRUE, {s}, display, inflight)
        /\ last' = Step("RefreshClick", s, Off, Off, 0)
        /\ UNCHANGED <<page, token, cache, now, servers, hourlyDue, logsDue, timeouts,
                       denied, invs, fetched, logged>>

\* Click on "Start VM" / "Shutdown VM": handleVmAction up to its first await.
VmActionClick ==
    \E s \in servers, a \in VmActions, answer \in BOOLEAN, i \in 1..MaxClicks :
        /\ page = "dashboard"
        /\ clicks < MaxClicks
        /\ clicks' = clicks + 1
        /\ invs[i].outcome = "unused"
        /\ \A j \in 1..(i - 1) : invs[j].outcome # "unused"
        /\ LET path == IF ~Confirmed(answer) THEN "declined" ELSE LogsPath(token)
           IN  /\ invs' = [invs EXCEPT ![i] =
                      [NoInv EXCEPT !.srv = s, !.answer = answer,
                                    !.outcome = IF path = "fetch" THEN "pending" ELSE path]]
               /\ inflight' = IF path = "fetch"
                              THEN inflight (+) SetToBag({Request(a, s, 0, i, token)})
                              ELSE inflight
               /\ redirect' = (redirect \/ path = "noToken")
               /\ last' = Step("VmActionClick", s, Off, Off, i)
        /\ UNCHANGED <<page, token, cache, now, servers, display, hourlyDue, logsDue,
                       timeouts, denied, fetched, logged>>

\* The setTimeout(..., 3000) callback of handleVmAction.
DeferredRefresh ==
    \E t \in timeouts :
        /\ page = "dashboard"
        /\ t.due <= now
        /\ timeouts' = timeouts \ {t}
        /\ Syncs({t.srv}, TRUE, {t.srv}, display, inflight)
        /\ invs' = [invs EXCEPT ![t.inv].runs = @ + 1]
        /\ last' = Step("DeferredRefresh", t.srv, Off, Off, t.inv)
        /\ UNCHANGED <<page, token, cache, now, servers, hourlyDue, logsDue, clicks, denied, fetched, logged>>

\* Click on the logout button: localStorage.clear() and redirect.
LogoutClick ==
    /\ page = "dashboard"
    /\ clicks < MaxClicks
    /\ clicks' = clicks + 1
    /\ token' = NoToken
    /\ cache' = ClearedEntries(cache)
    /\ redirect' = TRUE
    /\ last' = Step("LogoutClick", None, Off, Off, 0)
    /\ UNCHANGED <<page, now, servers, display, inflight, hourlyDue, logsDue, timeouts,
                   denied, invs, fetched, logged>>

\* The navigation started by window.location.href completes: the dashboard document,
\* its timers and the continuations of its pending calls are gone.
Unload ==
    /\ page = "dashboard"
    /\ redirect
    /\ page' = "login"
    /\ redirect' = FALSE
    /\ servers' = {}
    /\ display' = [s \in ServerIds |-> NoCard]
    /\ inflight' = EmptyBag
    /\ hourlyDue' = Off
    /\ logsDue' = Off
    /\ timeouts' = {}
    /\ invs' = [i \in 1..MaxClicks |-> NoInv]
    /\ last' = Step("Unload", None, Off, Off, 0)
    /\ logged' = [s \in ServerIds |-> <<>>]
    /\ UNCHANGED <<token, cache, now, clicks, denied, fetched>>

\* Time passes.
Advance ==
    \E t \in Instants :
        /\ t > now
        /\ BagCardinality(inflight) <= MaxSlow
        /\ now' = t
        /\ last' = Step("Advance", None, Off, Off, 0)
        /\ UNCHANGED <<page, redirect, token, cache, servers, display, inflight,
                       hourlyDue, logsDue, timeouts, clicks, denied, invs, fetched, logged>>

Next ==
    \/ Login
    \/ LoadDashboard
    \/ RespServers
    \/ RespStatus
    \/ RespLogs
    \/ RespAction
    \/ HourlyTick
    \/ LogTick
    \/ RefreshClick
    \/ VmActionClick
    \/ DeferredRefresh
    \/ LogoutClick
    \/ Unload
    \/ Advance

Spec == Init /\ [][Next]_vars

-----------------------------------------------------------------------------
(* The dashboard of a fleet of two servers, left to its timers: the same page
   from the moment the user has logged in, without the user's clicks, until a
   401 ends the session. *)

FleetLists == {{"a", "b"}}

\* The login page right after a successful login (script.js).
InitFleet ==
    /\ page = "login"
    /\ redirect = FALSE
    /\ token \in Tokens
    /\ cache = [k \in CacheKeys |-> NoEntry]
    /\ now = 0
    /\ servers = {}
    /\ display = [s \in ServerIds |-> NoCard]
    /\ inflight = EmptyBag
    /\ hourlyDue = Off
    /\ logsDue = Off
    /\ timeouts = {}
    /\ denied = FALSE
    /\ clicks = 0
    /\ invs = [i \in 1..MaxClicks |-> NoInv]
    /\ fetched = [s \in ServerIds |-> <<>>]
    /\ logged = [s \in ServerIds |-> <<>>]
    /\ last = Step("Login", None, Off, Off, 0)

RespFleet == RespServersFrom(FleetLists)

NextFleet ==
    \/ LoadDashboard
    \/ RespFleet
    \/ RespStatus
    \/ RespLogs
    \/ HourlyTick
    \/ LogTick
    \/ Unload
    \/ Advance

SpecFleet == InitFleet /\ [][NextFleet]_vars

-----------------------------------------------------------------------------
(* Vocabulary of the properties *)

ErrorText == <<"Error loading data.">>

\* Status calls / log calls in flight for a server.
Calls(bag, kind, s) ==
    LET R == {x \in BagToSet(bag) : x.kind = kind /\ x.srv = s}
    IN  BagCardinality([r \in R |-> bag[r]])

\* The card shows exactly the status body d.
Shows(card, d) ==
    /\ card.vm[1] = d.instance_name
    /\ card.vm[2] = d.status
    /\ card.bar = d.traffic_usage_percent
    /\ card.traffic = <<toFixed2(d.current_traffic_gb), "GB /", d.traffic_threshold_gb,
                        "GB", d.traffic_usage_percent, "%">>

\* The cache entry of s has an age below one hour.
YoungEntry(s) ==
    /\ cache[cacheKey(s)] # NoEntry
    /\ now - cache[cacheKey(s)][4] < 3600000

\* The step runs updateDashboardForServer(s, false) / (s, true).
NonForcedSync(s) ==
    \/ last'.op = "HourlyTick" /\ s \in servers
    \/ last'.op = "RespServers" /\ s \in servers'

ForcedSync(s) == last'.op \in {"RefreshClick", "DeferredRefresh"} /\ last'.srv = s

\* The step runs updateActionLogsForServer(s).
LogSync(s) ==
    \/ last'.op = "LogTick" /\ s \in servers
    \/ last'.op = "RespServers" /\ s \in servers'
    \/ ForcedSync(s)

TimerOps == {"HourlyTick", "LogTick", "DeferredRefresh"}
RespOps == {"RespServers", "RespStatus", "RespLogs", "RespAction"}
Success == 200..299

\* The step issues no network call.
NoNewCall == \A r \in BagToSet(inflight') : CopiesIn(r, inflight') <= CopiesIn(r, inflight)

-----------------------------------------------------------------------------
\* C1: a non-forced status sync that finds an entry younger than 3 600 000 ms
\* issues no status call for that server and renders exactly the body of the last
\* successful status fetch for that server.
CacheHitServesLastFetch ==
    [][\A s \in ServerIds :
          (NonForcedSync(s) /\ YoungEntry(s)) =>
              /\ Calls(inflight', "status", s) = Calls(inflight, "status", s)
              /\ fetched[s] # <<>>
              /\ Shows(display'[s], fetched[s][1])]_vars

CacheHitWitness ==
    /\ last.op = "HourlyTick"
    /\ \E s \in servers : YoungEntry(s) /\ Shows(display[s], fetched[s][1])

\* C2 as stated: every forced status sync issues a status call, whatever the cache.
ForcedSyncAlwaysCalls ==
    [][\A s \in ServerIds :
          ForcedSync(s) =>
              Calls(inflight', "status", s) = Calls(inflight, "status", s) + 1]_vars

\* C2 as amended: a forced status sync made while a token is stored issues exactly
\* one status call, stamped with the current instant, whatever the age of the
\* entry; made without a token it issues none.
ForcedSyncCallsWithToken ==
    [][\A s \in ServerIds :
          ForcedSync(s) =>
              IF token # NoToken
              THEN /\ Calls(inflight', "status", s) = Calls(inflight, "status", s) + 1
                   /\ BagIn(Request("status", s, now, 0, token), inflight')
              ELSE Calls(inflight', "status", s) = Calls(inflight, "status", s)]_vars

ForcedSyncWitness ==
    /\ last.op = "RefreshClick"
    /\ YoungEntry(last.srv)
    /\ BagIn(Request("status", last.srv, now, 0, token), inflight)

\* C3 as stated: once a 401 has removed the token, a timer callback issues no call
\* and changes neither the cache nor any card.
TimersNoOpAfter401 ==
    [][(denied /\ token = NoToken /\ last'.op \in TimerOps) =>
          (NoNewCall /\ cache' = cache /\ display' = display)]_vars

\* C4 as stated: once a 401 has removed the token, every sync (status, forced or
\* not, or logs) ends in the authorization failure and issues no call: the location
\* is set to the login page and a status sync leaves the error text in the card.
SyncFailsAfter401 ==
    [][\A s \in ServerIds :
          /\ (denied /\ token = NoToken /\ (NonForcedSync(s) \/ ForcedSync(s))) =>
                 /\ display'[s].traffic = ErrorText
                 /\ redirect'
                 /\ NoNewCall
          /\ (denied /\ token = NoToken /\ LogSync(s)) =>
                 /\ redirect'
                 /\ NoNewCall]_vars

\* C5: a declined confirmation issues no call, arms no timer and leaves cache,
\* token, cards and location alone; an action call in flight always belongs to an
\* invocation whose confirmation was answered yes.
DeclinedActionHasNoEffect ==
    [][/\ (last'.op = "VmActionClick" /\ ~invs'[last'.inv].answer) =>
              UNCHANGED <<inflight, timeouts, cache, token, display, redirect>>
       /\ \A r \in BagToSet(inflight') : r.kind \in VmActions => invs'[r.inv].answer]_vars

DeclinedActionWitness ==
    /\ last.op = "VmActionClick"
    /\ invs[last.inv].outcome = "declined"
    /\ ~invs[last.inv].answer

\* C6 as stated, in the form a finite run refutes: the deferred refresh of a
\* successful invocation is never given up without having run.
ScheduledRefreshAlwaysRuns ==
    [][\A t \in timeouts : t \notin timeouts' => invs'[t.inv].runs = 1]_vars

\* C6 as amended: a success response arms exactly one refresh for that server, due
\* 3000 ms later; a refresh leaves the timers only by running, once, not before it
\* is due, as a forced status sync and a log sync of that server, or by the page
\* being unloaded; nothing else arms a refresh.
RefreshOnceUnlessUnloaded ==
    [][/\ (last'.op = "RespAction" /\ last'.resp \in Success) =>
              LET t == [inv |-> last'.inv, srv |-> last'.srv, due |-> now + 3000]
              IN  t \notin timeouts /\ timeouts' = timeouts \cup {t}
       /\ \A t \in timeouts : t \notin timeouts' =>
              \/ last'.op = "Unload"
              \/ /\ last'.op = "DeferredRefresh"
                 /\ last'.inv = t.inv
                 /\ last'.srv = t.srv
                 /\ invs[t.inv].resp \in Success
                 /\ now >= t.due
                 /\ timeouts' = timeouts \ {t}
                 /\ invs[t.inv].runs = 0
                 /\ invs'[t.inv].runs = 1
                 /\ token # NoToken =>
                        /\ Calls(inflight', "status", t.srv) = Calls(inflight, "status", t.srv) + 1
                        /\ Calls(inflight', "logs", t.srv) = Calls(inflight, "logs", t.srv) + 1
       /\ \A t \in timeouts' : t \notin timeouts =>
              last'.op = "RespAction" /\ last'.resp \in Success
       /\ \A i \in 1..MaxClicks : invs'[i].runs <= 1]_vars

RefreshOnceWitness ==
    /\ last.op = "DeferredRefresh"
    /\ invs[last.inv].resp = 200
    /\ invs[last.inv].runs = 1
    /\ BagIn(Request("status", last.srv, now, 0, token), inflight)

\* C7: an invocation whose call failed (401, another non-2xx status, network
\* error) or was never issued has no refresh pending and none that ran.
FailedActionSchedulesNothing ==
    \A i \in 1..MaxClicks :
        (invs[i].outcome = "noToken" \/ invs[i].resp \in {Unauthorized, 500, NetworkError}) =>
            /\ invs[i].runs = 0
            /\ \A t \in timeouts : t.inv # i

FailedActionWitness ==
    /\ last.op = "RespAction"
    /\ invs[last.inv].answer
    /\ invs[last.inv].resp = 500

\* C8: a call is issued only while a token is stored, and carries it; a handler
\* that reaches fetchWithAuth without a token issues nothing and sets the location
\* to the login page.
NoCallWithoutToken ==
    [][/\ \A r \in BagToSet(inflight') :
              CopiesIn(r, inflight') > CopiesIn(r, inflight) =>
                  token # NoToken /\ r.bearer = token
       /\ (/\ token = NoToken
           /\ \/ last'.op \in {"RefreshClick", "DeferredRefresh"}
              \/ last'.op = "LogTick" /\ servers # {}
              \/ last'.op = "HourlyTick" /\ \E s \in servers : ~YoungEntry(s)
              \/ last'.op = "VmActionClick" /\ invs'[last'.inv].answer) =>
              (redirect' /\ NoNewCall)]_vars

NoCallWithoutTokenWitness ==
    /\ last.op = "RefreshClick"
    /\ token = NoToken
    /\ redirect
    /\ inflight = EmptyBag

\* C9: a 401 removes the token, sets the location to the login page and is never
\* handed to the caller; any other status is handed to the caller as it came and
\* leaves the token in place.
OnlyUnauthorizedTearsDown ==
    [][last'.op \in RespOps =>
          IF last'.resp = 401
          THEN token' = NoToken /\ redirect' /\ last'.ret = Off
          ELSE /\ token' = token
               /\ last'.resp # NetworkError => last'.ret = last'.resp]_vars

OtherStatusWitness ==
    /\ last.op = "RespStatus"
    /\ last.resp = 500
    /\ last.ret = 500
    /\ token # NoToken

\* C10: a status sync that fails (no token, 401, non-2xx status, network error)
\* leaves every cache entry as it was; so does every step that only issues syncs.
FailedSyncKeepsCache ==
    [][/\ (last'.op = "RespStatus" /\ last'.resp \notin Success) => cache' = cache
       /\ last'.op \in (TimerOps \cup {"RefreshClick", "RespServers"}) => cache' = cache]_vars

FailedSyncWitness ==
    /\ last.op = "RespStatus"
    /\ last.resp = 500
    /\ cache[cacheKey(last.srv)] # NoEntry
    /\ display[last.srv].traffic = ErrorText

\* C11: a log sync made while a token is stored issues exactly one call to the
\* logs endpoint of that server, whatever the cache holds, and neither a step that
\* starts log syncs nor the answer to a logs call changes any cache entry.
LogsNeverCacheServed ==
    [][/\ \A s \in ServerIds :
              (LogSync(s) /\ token # NoToken) =>
                  /\ Calls(inflight', "logs", s) = Calls(inflight, "logs", s) + 1
                  /\ BagIn(Request("logs", s, 0, 0, token), inflight')
                  /\ cache' = cache
       /\ last'.op = "RespLogs" => cache' = cache]_vars

LogsNeverCacheServedWitness ==
    /\ last.op = "LogTick"
    /\ \E s \in servers :
           /\ YoungEntry(s)
           /\ BagIn(Request("logs", s, 0, 0, token), inflight)

\* C12: the logout click removes the token and every cache entry in one step; the
\* unload of the page, a login and a load of the dashboard leave the cache as it
\* is, and no step other than the logout click removes an entry.
LogoutClearsStorage ==
    [][/\ last'.op = "LogoutClick" =>
              /\ token' = NoToken
              /\ \A k \in DOMAIN cache' : cache'[k] = NoEntry
       /\ last'.op \in {"Unload", "Login", "LoadDashboard"} => cache' = cache
       /\ \A k \in DOMAIN cache :
              (cache[k] # NoEntry /\ cache'[k] = NoEntry) => last'.op = "LogoutClick"]_vars

LogoutClearsStorageWitness ==
    /\ last.op = "LogoutClick"
    /\ \E s \in ServerIds : fetched[s] # <<>>
    /\ token = NoToken
    /\ \A k \in DOMAIN cache : cache[k] = NoEntry

\* C13: with two servers, a tick made while a token is stored issues the call of
\* every server that needs one, whatever calls of the other server are still in
\* flight or have failed; the answer to a call of one server touches neither the
\* calls in flight, the cache entry nor the card of the other; and a tick that is
\* due can fire, and a status call in flight can be answered, in every state of
\* the page, whatever else is in flight.
SlowSyncBlocksNoOther ==
    [][/\ (last'.op = "HourlyTick" /\ token # NoToken) =>
              \A s \in servers :
                  ~YoungEntry(s) =>
                      Calls(inflight', "status", s) = Calls(inflight, "status", s) + 1
       /\ (last'.op = "LogTick" /\ token # NoToken) =>
              \A s \in servers :
                  Calls(inflight', "logs", s) = Calls(inflight, "logs", s) + 1
       /\ (last'.op = "RespServers" /\ last'.resp \in Success /\ token # NoToken) =>
              \A s \in servers' :
                  /\ Calls(inflight', "logs", s) = Calls(inflight, "logs", s) + 1
                  /\ ~YoungEntry(s) =>
                         Calls(inflight', "status", s) = Calls(inflight, "status", s) + 1
       /\ last'.op \in {"RespStatus", "RespLogs"} =>
              \A s \in ServerIds \ {last'.srv} :
                  /\ Calls(inflight', "status", s) = Calls(inflight, "status", s)
                  /\ Calls(inflight', "logs", s) = Calls(inflight, "logs", s)
                  /\ cache'[cacheKey(s)] = cache[cacheKey(s)]
                  /\ display'[s] = display[s]
       /\ (page = "dashboard" /\ hourlyDue # Off /\ hourlyDue <= now) => ENABLED HourlyTick
       /\ (page = "dashboard" /\ logsDue # Off /\ logsDue <= now) => ENABLED LogTick
       /\ (page = "dashboard" /\ \E r \in BagToSet(inflight) : r.kind = "status") =>
              ENABLED RespStatus]_vars

\* The hourly tick has fired while the status call that server a got at the load
\* is still unanswered, and the call it issued for server b has been answered.
SlowSyncWitness ==
    /\ last.op = "RespStatus"
    /\ last.srv = "b"
    /\ last.resp = 200
    /\ now = 3600000
    /\ hourlyDue > now
    /\ cache[cacheKey("b")] # NoEntry
    /\ cache[cacheKey("b")][4] = now
    /\ BagIn(Request("status", "a", 0, 0, token), inflight)
    /\ BagIn(Request("status", "a", now, 0, token), inflight)

\* C14 as stated: a non-forced status sync issues a status call exactly when the
\* server has no entry or one whose age is 3 600 000 ms or more.
StaleSyncAlwaysCalls ==
    [][\A s \in ServerIds :
          NonForcedSync(s) =>
              IF YoungEntry(s)
              THEN Calls(inflight', "status", s) = Calls(inflight, "status", s)
              ELSE Calls(inflight', "status", s) = Calls(inflight, "status", s) + 1]_vars

\* C14 as amended: a non-forced status sync made while a token is stored issues a
\* status call exactly when the server has no entry or one whose age is
\* 3 600 000 ms or more; made without a token it issues none.
StaleSyncCallsWithToken ==
    [][\A s \in ServerIds :
          NonForcedSync(s) =>
              IF cache[cacheKey(s)] # NoEntry /\ now - cache[cacheKey(s)][4] < 3600000
              THEN Calls(inflight', "status", s) = Calls(inflight, "status", s)
              ELSE IF token # NoToken
                   THEN Calls(inflight', "status", s) = Calls(inflight, "status", s) + 1
                   ELSE Calls(inflight', "status", s) = Calls(inflight, "status", s)]_vars

\* The hourly tick has met an entry whose age is exactly 3 600 000 ms and has
\* issued a call.
StaleAtTTLWitness ==
    /\ last.op = "HourlyTick"
    /\ \E s \in servers :
           /\ cache[cacheKey(s)] # NoEntry
           /\ now - cache[cacheKey(s)][4] = 3600000
           /\ BagIn(Request("status", s, now, 0, token), inflight)

\* C15: with two servers, a successful status sync of one server leaves the entry
\* of the other server and the token as they are; the keys of different servers
\* differ; and an entry under a server's key always holds a status body that was
\* sent for that server.
EntriesNeverCollide ==
    [][/\ (last'.op = "RespStatus" /\ last'.resp \in Success) =>
              /\ token' = token
              /\ cache'[cacheKey(last'.srv)] # NoEntry
              /\ \A s \in ServerIds \ {last'.srv} :
                     cache'[cacheKey(s)] = cache[cacheKey(s)]
       /\ \A s, t \in ServerIds : s # t => cacheKey(s) # cacheKey(t)
       /\ \A s \in ServerIds :
              cache'[cacheKey(s)] # NoEntry =>
                  /\ cache'[cacheKey(s)][2] \in StatusData(s)
                  /\ cache'[cacheKey(s)][2].instance_name = s]_vars

\* Both servers have an entry, each with its own body, the second one just stored.
EntriesNeverCollideWitness ==
    /\ last.op = "RespStatus"
    /\ last.srv = "b"
    /\ last.resp = 200
    /\ cache[cacheKey("a")] # NoEntry
    /\ cache[cacheKey("b")] # NoEntry
    /\ cache[cacheKey("a")][2].instance_name = "a"
    /\ cache[cacheKey("b")][2].instance_name = "b"

\* C16: the answer to a logs call renders, for an empty body, exactly one item,
\* the placeholder, and for any other body one item per entry, in the order of the
\* body, each with the entry's time, action and reason.
LogsRenderedInOrder ==
    [][(last'.op = "RespLogs" /\ last'.resp \in Success) =>
          LET logs == logged'[last'.srv][1]
              shown == display'[last'.srv].logs
          IN  IF logs = <<>>
              THEN shown = <<"No actions logged for this server.">>
              ELSE /\ Len(shown) = Len(logs)
                   /\ \A i \in 1..Len(logs) :
                          /\ shown[i][2][2] = logs[i].timestamp
                          /\ shown[i][4] = logs[i].action_type
                          /\ shown[i][6] = (IF logs[i].reason = "-" THEN "" ELSE logs[i].reason)]_vars

EmptyLogsWitness ==
    /\ last.op = "RespLogs"
    /\ last.resp = 200
    /\ logged[last.srv] = << <<>> >>
    /\ Len(display[last.srv].logs) = 1

\* C17 as stated: the entry stored by a successful status fetch carries the
\* instant at which the response is received.
StoredAtResponseInstant ==
    [][(last'.op = "RespStatus" /\ last'.resp \in Success) =>
          cache'[cacheKey(last'.srv)][4] = now]_vars

\* C18 as stated: the answers to the status calls of a server are applied in the
\* order in which the calls were issued: an answer never replaces an entry by one
\* of an earlier-issued call, so the timestamp stored under a key never decreases.
AppliedInIssuanceOrder ==
    [][\A s \in ServerIds :
          (cache[cacheKey(s)] # NoEntry /\ cache'[cacheKey(s)] # NoEntry) =>
              cache'[cacheKey(s)][4] >= cache[cacheKey(s)][4]]_vars

\* C19 as stated: the answer that makes a status sync or a log sync fail leaves an
\* error text in the card of that server.
FailedSyncShowsError ==
    [][(last'.op \in {"RespStatus", "RespLogs"} /\ last'.resp \notin Success) =>
          \/ display'[last'.srv].traffic = ErrorText
          \/ display'[last'.srv].logs = ErrorText]_vars

\* C20: no step issues more than one call to the same endpoint; the answer that
\* makes a sync, an action or the load of the server list fail issues no call and
\* arms no timer; and a call is issued only by the load of the page, a tick, a
\* click, a deferred refresh or the successful answer to the server list.
NoAutomaticRetry ==
    [][/\ \A r \in BagToSet(inflight') :
              CopiesIn(r, inflight') > CopiesIn(r, inflight) =>
                  Calls(inflight', r.kind, r.srv) <= Calls(inflight, r.kind, r.srv) + 1
       /\ (last'.op \in RespOps /\ last'.resp \notin Success) =>
              /\ NoNewCall
              /\ timeouts' = timeouts
              /\ hourlyDue' = hourlyDue
              /\ logsDue' = logsDue
       /\ ~NoNewCall =>
              \/ last'.op \in {"LoadDashboard", "HourlyTick", "LogTick", "RefreshClick",
                               "VmActionClick", "DeferredRefresh"}
              \/ last'.op = "RespServers" /\ last'.resp \in Success]_vars

\* The load of the server list has failed and nothing is in flight.
NoAutomaticRetryWitness ==
    /\ last.op = "RespServers"
    /\ last.resp = 500
    /\ page = "dashboard"
    /\ inflight = EmptyBag
    /\ timeouts = {}

\* C21 as stated: the step that tears the session down (a 401 or the logout click)
\* leaves the other calls in flight as they are, and the 401 answer to a call that
\* was in flight when the token was removed changes neither a cache entry nor a
\* card.
Late401IsDropped ==
    [][/\ (last'.op \in RespOps /\ last'.resp = 401) =>
              \A r \in BagToSet(inflight) :
                  CopiesIn(r, inflight') >= CopiesIn(r, inflight) - 1
       /\ last'.op = "LogoutClick" => inflight' = inflight
       /\ (last'.op \in RespOps /\ last'.resp = 401 /\ token = NoToken) =>
              (cache' = cache /\ display' = display)]_vars

\* C22 as stated: an hourly tick made while a token is stored, the user having
\* clicked nothing, so that every entry is one written by the sync of a page load
\* or of a tick, issues a status call for every server of the page.
HourlyTickRefetchesAll ==
    [][(last'.op = "HourlyTick" /\ token # NoToken /\ clicks = 0) =>
          \A s \in servers :
              Calls(inflight', "status", s) = Calls(inflight, "status", s) + 1]_vars

\* C23: a 401 removes the token and leaves every cache entry as it is, and so do
\* the unload of the page, the next login and the next load of the dashboard; the
\* first sync of the newly loaded page, for a server whose entry is younger than
\* 3 600 000 ms, issues no status call and shows the body of that entry, which an
\* earlier page has stored.
EntriesSurvive401 ==
    [][/\ (last'.op \in RespOps /\ last'.resp = 401) =>
              /\ token' = NoToken
              /\ cache' = cache
       /\ last'.op \in {"Unload", "Login", "LoadDashboard"} => cache' = cache
       /\ (last'.op = "RespServers" /\ last'.resp \in Success) =>
              \A s \in servers' :
                  YoungEntry(s) =>
                      /\ Calls(inflight', "status", s) = 0
                      /\ Shows(display'[s], cache[cacheKey(s)][2])
                      /\ cache' = cache]_vars

\* No button has been clicked, so the page before this one ended with a 401; after
\* the new login the first sync of the page has been served from the entry that
\* the earlier page stored.
ServedAcrossSessionsWitness ==
    /\ last.op = "RespServers"
    /\ last.resp = 200
    /\ clicks = 0
    /\ token # NoToken
    /\ ~denied
    /\ \E s \in servers :
           /\ YoungEntry(s)
           /\ Shows(display[s], cache[cacheKey(s)][2])
           /\ Calls(inflight, "status", s) = 0

\* C24 as stated: the logout click leaves no cache entry, and as long as the page
\* it was clicked on lives (the token is gone without a 401 having removed it) no
\* step creates one: the answer to a status call that was in flight at the click
\* stores nothing.
NoEntryAfterLogout ==
    [][/\ last'.op = "LogoutClick" => \A k \in DOMAIN cache' : cache'[k] = NoEntry
       /\ (page = "dashboard" /\ token = NoToken /\ ~denied) =>
              \A k \in DOMAIN cache' : cache'[k] = NoEntry]_vars

====
